---- MODULE Spec2Model ----
(***************************************************************************)
(* RemotePiCam: the capture service (capture_service.py) and the           *)
(* collector (receiver.py).                                                *)
(*                                                                         *)
(* Bytes are integers 0..255, byte strings are sequences of bytes, text is *)
(* a sequence of one-character strings.  Python's None is the value None.  *)
(***************************************************************************)
EXTENDS Integers, Sequences, FiniteSets, TLC

\* ------------------------------------------------------------ bounds
\* HTTP requests that reach the capture service in one run.
MaxRequests == 2
\* Messages the GStreamer bus may hold at once.
MaxBus == 1
\* Endpoints of one collection round (the length of pi_addresses).
NumPis == 2

\* ------------------------------------------------------------ values
None == <<-1>>
B64Error == <<-2>>

\* The contents multifilesink may leave in /tmp/frame.jpg.
FileContents == {<<>>, <<77, 97>>}

Paths == {"/capture", "/other"}

BusMessages == {"EOS", "ERROR", "STATE_CHANGED"}

Requests == 1..MaxRequests

\* ------------------------------------------------------------ base64
B64Alphabet ==
  << "A","B","C","D","E","F","G","H","I","J","K","L","M","N","O","P",
     "Q","R","S","T","U","V","W","X","Y","Z","a","b","c","d","e","f",
     "g","h","i","j","k","l","m","n","o","p","q","r","s","t","u","v",
     "w","x","y","z","0","1","2","3","4","5","6","7","8","9","+","/" >>

B64Char(v) == B64Alphabet[v + 1]

IsB64Char(c) == \E i \in 1..64 : B64Alphabet[i] = c

B64Value(c) == (CHOOSE i \in 1..64 : B64Alphabet[i] = c) - 1

\* base64.b64encode: three bytes become four characters, the tail is padded.
RECURSIVE b64encode(_)
b64encode(b) ==
  IF Len(b) = 0 THEN <<>>
  ELSE IF Len(b) = 1 THEN
    LET n == b[1] * 65536
    IN << B64Char(n \div 262144), B64Char((n \div 4096) % 64), "=", "=" >>
  ELSE IF Len(b) = 2 THEN
    LET n == b[1] * 65536 + b[2] * 256
    IN << B64Char(n \div 262144), B64Char((n \div 4096) % 64),
          B64Char((n \div 64) % 64), "=" >>
  ELSE
    LET n == b[1] * 65536 + b[2] * 256 + b[3]
    IN << B64Char(n \div 262144), B64Char((n \div 4096) % 64),
          B64Char((n \div 64) % 64), B64Char(n % 64) >>
       \o b64encode(SubSeq(b, 4, Len(b)))

\* binascii.a2b_base64 in its default (non-strict) mode, as base64.b64decode
\* calls it: characters outside the alphabet are skipped, a pad sequence that
\* completes a quad ends the input, a dangling quad is an error.
RECURSIVE a2b_base64(_, _, _, _, _, _)
a2b_base64(s, i, quad_pos, leftchar, pads, out) ==
  IF i > Len(s) THEN (IF quad_pos # 0 THEN B64Error ELSE out)
  ELSE IF s[i] = "=" THEN
    IF quad_pos >= 2 /\ quad_pos + pads + 1 >= 4 THEN out
    ELSE a2b_base64(s, i + 1, quad_pos, leftchar,
                    IF quad_pos >= 2 THEN pads + 1 ELSE pads, out)
  ELSE IF ~IsB64Char(s[i]) THEN a2b_base64(s, i + 1, quad_pos, leftchar, pads, out)
  ELSE
    LET v == B64Value(s[i])
    IN CASE quad_pos = 0 -> a2b_base64(s, i + 1, 1, v, 0, out)
         [] quad_pos = 1 ->
              a2b_base64(s, i + 1, 2, v % 16, 0,
                         Append(out, (leftchar * 4 + v \div 16) % 256))
         [] quad_pos = 2 ->
              a2b_base64(s, i + 1, 3, v % 4, 0,
                         Append(out, (leftchar * 16 + v \div 4) % 256))
         [] OTHER ->
              a2b_base64(s, i + 1, 0, 0, 0,
                         Append(out, (leftchar * 64 + v) % 256))

b64decode(s) == a2b_base64(s, 1, 0, 0, 0, <<>>)

\* The envelope of the wire protocol: "data:image/jpeg;base64,".
DataPrefix ==
  << "d","a","t","a",":","i","m","a","g","e","/","j","p","e","g",";",
     "b","a","s","e","6","4","," >>

HasPrefix(s) ==
  Len(s) >= Len(DataPrefix) /\ SubSeq(s, 1, Len(DataPrefix)) = DataPrefix

\* str.split(sep): the segments of s between occurrences of sep.
RECURSIVE SplitFrom(_, _, _, _)
SplitFrom(s, sep, i, cur) ==
  IF i > Len(s) THEN <<cur>>
  ELSE IF s[i] = sep THEN <<cur>> \o SplitFrom(s, sep, i + 1, <<>>)
  ELSE SplitFrom(s, sep, i + 1, Append(cur, s[i]))

Split(s, sep) == SplitFrom(s, sep, 1, <<>>)

\* ------------------------------------------------------------ state
VARIABLES
  \* capture service: GStreamerCapture
  frame,       \* self.frame
  lock,        \* holder of self.lock: "free", "producer" or "handler"
  running,     \* self.running
  pipeline,    \* state of self.pipeline: "NULL", "ASYNC" (changing), "PLAYING"
  bus,         \* messages posted on self.bus, oldest first
  file,        \* contents of /tmp/frame.jpg, None when it cannot be read
  pcProd,      \* position of the capture_loop thread
  pcMain,      \* position of the main thread of capture_service.py
  \* capture service: the HTTP server (one request at a time, in the main thread)
  reqState,    \* per request: "new", "queued", "handling", "done", "aborted"
  reqPath,     \* per request: its path
  seen,        \* the value of self.frame when the current get_frame read it
  resp,        \* the latest response sent, status 0 while there is none
  cur,         \* the request do_GET is handling, 0 when idle
  pcH,         \* position inside do_GET / get_frame
  got,         \* do_GET's local variable frame
  \* history of the capture service
  published,   \* the values update_frame has assigned
  lastPub,     \* the value of the latest completed assignment, None before
  callLast,    \* lastPub when the current get_frame call started
  callPubs,    \* values assigned while the current get_frame call runs
  lastStep,    \* what the producer's latest step was
  pubSinceRead \* whether a publish has completed since get_frame last returned
               \* (kept while the server serves: no get_frame follows after)

svcVars == << frame, lock, running, pipeline, bus, file, pcProd, pcMain,
              reqState, reqPath, seen, resp, cur, pcH, got,
              published, lastPub, callLast, callPubs, lastStep,
              pubSinceRead >>

VARIABLES
  \* collector: receiver.py
  pcCol,       \* position of __main__: "submit", "collect", "done"
  nextSubmit,  \* index in pi_addresses of the next executor.submit
  task,        \* per endpoint, its future: "unsubmitted", "queued", "running", "done"
  sent,        \* per endpoint: HTTP requests issued
  response,    \* per endpoint: what requests.get produced
  result,      \* per endpoint: image_bytes of the tuple the future holds
  pending,     \* as_completed's set of futures not yet yielded
  delivered,   \* the (pi_address, image_bytes) pairs the for loop has processed
  saved        \* the (pi_address, image_bytes) pairs handed to save_image

colVars == << pcCol, nextSubmit, task, sent, response, result, pending,
              delivered, saved >>

vars == << svcVars, colVars >>

Pis == 1..NumPis

NoOutcome == [kind |-> "none", status |-> 0, body |-> <<>>]

NoResponse ==
  [path |-> "", seen |-> None, got |-> None, status |-> 0, body |-> <<>>]

\* GStreamerCapture.__init__, before start() is called; receiver.py's
\* __main__ before the executor is created.
Init ==
  /\ frame = None
  /\ lock = "free"
  /\ running = FALSE
  /\ pipeline = "NULL"
  /\ bus = <<>>
  /\ file = None
  /\ pcProd = "not_started"
  /\ pcMain = "init"
  /\ reqState = [r \in Requests |-> "new"]
  /\ reqPath = [r \in Requests |-> "/capture"]
  /\ seen = None
  /\ resp = NoResponse
  /\ cur = 0
  /\ pcH = "idle"
  /\ got = None
  /\ published = {}
  /\ lastPub = None
  /\ callLast = None
  /\ callPubs = {}
  /\ lastStep = "none"
  /\ pubSinceRead = FALSE
  /\ pcCol = "submit"
  /\ nextSubmit = 1
  /\ task = [e \in Pis |-> "unsubmitted"]
  /\ sent = [e \in Pis |-> 0]
  /\ response = [e \in Pis |-> NoOutcome]
  /\ result = [e \in Pis |-> None]
  /\ pending = {}
  /\ delivered = <<>>
  /\ saved = {}

\* ------------------------------------------------------------ GStreamerCapture
\* A read that stops short of the end of the file.
StoredFrameTorn(content) ==
  IF Len(content) = 0 THEN content ELSE SubSeq(content, 1, Len(content) - 1)

\* self.frame = image_file.read(): one reference assignment of the whole value.
StoredFrame(content) == content

\* An update_frame that resets the slot when the read fails.
update_frame_clears(f, content) == IF content = None THEN None ELSE content

\* An update_frame that keeps the first frame it stored.
update_frame_keeps_first(f, content) ==
  IF content = None \/ f # None THEN f ELSE content

\* update_frame: the new value of self.frame, given the file's contents
\* (None: open or read raised, which is logged and leaves self.frame alone).
update_frame(f, content) == IF content = None THEN f ELSE StoredFrame(content)

\* An update_frame whose exception escapes and ends the thread.
after_update_fatal(content) == IF content = None THEN "exited" ELSE "test"

\* update_frame's try/except: the exception is logged, and capture_loop goes
\* back to its while test whether or not the read succeeded.
after_update(content) == "test"

\* A get_frame that gives an empty frame while there is none.
get_frame_or_empty(f) == IF f = None THEN <<>> ELSE f

\* get_frame: return self.frame.
get_frame(f) == f

\* start(), in the main thread.
Start ==
  /\ pcMain = "init"
  /\ running' = TRUE
  /\ pipeline' = "ASYNC"
  /\ pcProd' = "test"
  /\ pcMain' = "serving"
  /\ UNCHANGED << frame, lock, bus, file, reqState, reqPath, seen, resp, cur,
                  pcH, got, published, lastPub, callLast, callPubs, lastStep >>
  /\ UNCHANGED pubSinceRead
  /\ UNCHANGED colVars

\* capture_loop: while self.running
LoopTest ==
  /\ pcProd = "test"
  /\ pcProd' = IF running THEN "acquire" ELSE "exited"
  /\ UNCHANGED << frame, lock, running, pipeline, bus, file, pcMain, reqState,
                  reqPath, seen, resp, cur, pcH, got, published, lastPub,
                  callLast, callPubs, lastStep >>
  /\ UNCHANGED pubSinceRead
  /\ UNCHANGED colVars

\* capture_loop: with self.lock
ProducerAcquire ==
  /\ pcProd = "acquire"
  /\ lock = "free"
  /\ lock' = "producer"
  /\ pcProd' = "get_state"
  /\ UNCHANGED << frame, running, pipeline, bus, file, pcMain, reqState,
                  reqPath, seen, resp, cur, pcH, got, published, lastPub,
                  callLast, callPubs, lastStep >>
  /\ UNCHANGED pubSinceRead
  /\ UNCHANGED colVars

\* capture_loop: self.pipeline.get_state(Gst.CLOCK_TIME_NONE) returns once no
\* state change is pending; leaving the with block releases the lock.
GetStateReturn ==
  /\ pcProd = "get_state"
  /\ pipeline # "ASYNC"
  /\ lock' = "free"
  /\ pcProd' = "poll"
  /\ UNCHANGED << frame, running, pipeline, bus, file, pcMain, reqState,
                  reqPath, seen, resp, cur, pcH, got, published, lastPub,
                  callLast, callPubs, lastStep >>
  /\ UNCHANGED pubSinceRead
  /\ UNCHANGED colVars

\* capture_loop: self.bus.poll(Gst.MessageType.EOS, Gst.CLOCK_TIME_NONE) pops
\* one message; the "message" signal runs on_message on it (an ERROR calls
\* stop(): running = False, pipeline to NULL, which flushes the bus); poll
\* returns on EOS and keeps waiting otherwise.
Poll ==
  /\ pcProd = "poll"
  /\ bus # <<>>
  /\ LET m == Head(bus)
     IN /\ IF m = "ERROR"
           THEN /\ running' = FALSE
                /\ pipeline' = "NULL"
                /\ bus' = <<>>
                /\ lastStep' = "error_stop"
           ELSE /\ bus' = Tail(bus)
                /\ UNCHANGED << running, pipeline, lastStep >>
        /\ pcProd' = IF m = "EOS" THEN "update" ELSE "poll"
  /\ UNCHANGED << frame, lock, file, pcMain, reqState, reqPath, seen, resp,
                  cur, pcH, got, published, lastPub, callLast, callPubs >>
  /\ UNCHANGED pubSinceRead
  /\ UNCHANGED colVars

\* capture_loop: self.update_frame(), then back to the while test.
UpdateFrame ==
  /\ pcProd = "update"
  /\ frame' = update_frame(frame, file)
  /\ IF file = None
     THEN /\ lastStep' = "read_failed"
          /\ UNCHANGED << published, lastPub, callPubs, pubSinceRead >>
     ELSE /\ lastStep' = "published"
          /\ pubSinceRead' = (pcMain = "serving")
          /\ published' = published \cup {file}
          /\ lastPub' = file
          /\ callPubs' = IF pcH \in {"acquire", "locked"}
                         THEN callPubs \cup {file} ELSE callPubs
  /\ pcProd' = after_update(file)
  /\ UNCHANGED << lock, running, pipeline, bus, file, pcMain, reqState,
                  reqPath, seen, resp, cur, pcH, got, callLast >>
  /\ UNCHANGED colVars

\* ------------------------------------------------------------ the pipeline
\* The pending state change completes.
StateChangeDone ==
  /\ pipeline = "ASYNC"
  /\ pipeline' = "PLAYING"
  /\ UNCHANGED << frame, lock, running, bus, file, pcProd, pcMain, reqState,
                  reqPath, seen, resp, cur, pcH, got, published, lastPub,
                  callLast, callPubs, lastStep >>
  /\ UNCHANGED pubSinceRead
  /\ UNCHANGED colVars

\* multifilesink replaces /tmp/frame.jpg with the next encoded buffer (it
\* writes the file whole, by g_file_set_contents).
WriteFile(c) ==
  /\ pipeline = "PLAYING"
  /\ file # c
  /\ file' = c
  /\ UNCHANGED << frame, lock, running, pipeline, bus, pcProd, pcMain,
                  reqState, reqPath, seen, resp, cur, pcH, got, published,
                  lastPub, callLast, callPubs, lastStep >>
  /\ UNCHANGED pubSinceRead
  /\ UNCHANGED colVars

\* The file is removed or becomes unreadable.
FileUnreadable ==
  /\ file # None
  /\ file' = None
  /\ UNCHANGED << frame, lock, running, pipeline, bus, pcProd, pcMain,
                  reqState, reqPath, seen, resp, cur, pcH, got, published,
                  lastPub, callLast, callPubs, lastStep >>
  /\ UNCHANGED pubSinceRead
  /\ UNCHANGED colVars

\* The pipeline posts a message on its bus.
PostMessage(m) ==
  /\ pipeline # "NULL"
  /\ Len(bus) < MaxBus
  /\ bus' = Append(bus, m)
  /\ UNCHANGED << frame, lock, running, pipeline, file, pcProd, pcMain,
                  reqState, reqPath, seen, resp, cur, pcH, got, published,
                  lastPub, callLast, callPubs, lastStep >>
  /\ UNCHANGED pubSinceRead
  /\ UNCHANGED colVars

\* stop(), from the finally clause of __main__: self.running = False
StopRunning ==
  /\ pcMain = "stopping"
  /\ running' = FALSE
  /\ pcMain' = "stopping_pipeline"
  /\ UNCHANGED << frame, lock, pipeline, bus, file, pcProd, reqState, reqPath,
                  seen, resp, cur, pcH, got, published, lastPub, callLast,
                  callPubs, lastStep >>
  /\ UNCHANGED pubSinceRead
  /\ UNCHANGED colVars

\* stop(), continued: self.pipeline.set_state(Gst.State.NULL), which also
\* flushes the bus.
StopPipeline ==
  /\ pcMain = "stopping_pipeline"
  /\ pipeline' = "NULL"
  /\ bus' = <<>>
  /\ pcMain' = "exited"
  /\ UNCHANGED << frame, lock, running, file, pcProd, reqState, reqPath, seen,
                  resp, cur, pcH, got, published, lastPub, callLast, callPubs,
                  lastStep >>
  /\ UNCHANGED pubSinceRead
  /\ UNCHANGED colVars

\* ------------------------------------------------------------ the HTTP server
\* A do_GET that tests the frame's truth value instead of "is not None".
do_GET_truthy(path, fr) ==
  IF path = "/capture"
  THEN IF fr # None /\ Len(fr) > 0
       THEN [status |-> 200, body |-> DataPrefix \o b64encode(fr)]
       ELSE [status |-> 500, body |-> <<>>]
  ELSE [status |-> 404, body |-> <<>>]

\* do_GET: the response for a path, given what get_frame returned.
do_GET(path, fr) ==
  IF path = "/capture"
  THEN IF fr # None
       THEN [status |-> 200, body |-> DataPrefix \o b64encode(fr)]
       ELSE [status |-> 500, body |-> <<>>]
  ELSE [status |-> 404, body |-> <<>>]

\* A client connects and sends GET p; the connection waits in the listen queue
\* (requests are numbered in the order they arrive).
Arrive(r, p) ==
  /\ pcMain = "serving"
  /\ reqState[r] = "new"
  /\ \A q \in Requests : q < r => reqState[q] # "new"
  /\ reqState' = [reqState EXCEPT ![r] = "queued"]
  /\ reqPath' = [reqPath EXCEPT ![r] = p]
  /\ UNCHANGED << frame, lock, running, pipeline, bus, file, pcProd, pcMain,
                  seen, resp, cur, pcH, got, published, lastPub, callLast,
                  callPubs, lastStep >>
  /\ UNCHANGED pubSinceRead
  /\ UNCHANGED colVars

\* serve_forever (HTTPServer: one request at a time) takes the oldest waiting
\* request and runs do_GET up to the call of get_frame.
Accept(r) ==
  /\ pcMain = "serving"
  /\ pcH = "idle"
  /\ reqState[r] = "queued"
  /\ \A q \in Requests : q < r => reqState[q] # "queued"
  /\ reqState' = [reqState EXCEPT ![r] = "handling"]
  /\ cur' = r
  /\ IF reqPath[r] = "/capture"
     THEN /\ pcH' = "acquire"
          /\ callLast' = lastPub
          /\ callPubs' = {}
     ELSE /\ pcH' = "respond"
          /\ UNCHANGED << callLast, callPubs >>
  /\ UNCHANGED << frame, lock, running, pipeline, bus, file, pcProd, pcMain,
                  reqPath, seen, resp, got, published, lastPub, lastStep >>
  /\ UNCHANGED pubSinceRead
  /\ UNCHANGED colVars

\* get_frame: with self.lock
HandlerAcquire ==
  /\ pcH = "acquire"
  /\ lock = "free"
  /\ lock' = "handler"
  /\ pcH' = "locked"
  /\ UNCHANGED << frame, running, pipeline, bus, file, pcProd, pcMain,
                  reqState, reqPath, seen, resp, cur, got, published, lastPub,
                  callLast, callPubs, lastStep >>
  /\ UNCHANGED pubSinceRead
  /\ UNCHANGED colVars

\* A get_frame that captures on demand: it loads the file into the slot
\* before returning it.
HandlerReadCaptures ==
  /\ pcH = "locked"
  /\ frame' = update_frame(frame, file)
  /\ got' = frame'
  /\ seen' = frame'
  /\ pubSinceRead' = FALSE
  /\ lock' = "free"
  /\ pcH' = "respond"
  /\ UNCHANGED << running, pipeline, bus, file, pcProd, pcMain,
                  reqState, reqPath, resp, cur, published, lastPub, callLast,
                  callPubs, lastStep >>
  /\ UNCHANGED colVars

\* get_frame: return self.frame, releasing the lock.
HandlerRead ==
  /\ pcH = "locked"
  /\ got' = get_frame(frame)
  /\ seen' = frame
  /\ pubSinceRead' = FALSE
  /\ lock' = "free"
  /\ pcH' = "respond"
  /\ UNCHANGED << frame, running, pipeline, bus, file, pcProd, pcMain,
                  reqState, reqPath, resp, cur, published, lastPub, callLast,
                  callPubs, lastStep >>
  /\ UNCHANGED colVars

\* do_GET: the response is sent.
HandlerRespond ==
  /\ pcH = "respond"
  /\ resp' = [path |-> reqPath[cur], seen |-> seen, got |-> got]
               @@ do_GET(reqPath[cur], got)
  /\ reqState' = [reqState EXCEPT ![cur] = "done"]
  /\ cur' = 0
  /\ pcH' = "idle"
  /\ got' = None
  /\ seen' = None
  /\ callLast' = None
  /\ callPubs' = {}
  /\ UNCHANGED << frame, lock, running, pipeline, bus, file, pcProd, pcMain,
                  reqPath, published, lastPub, lastStep >>
  /\ UNCHANGED pubSinceRead
  /\ UNCHANGED colVars

\* KeyboardInterrupt in serve_forever: a request being handled is abandoned
\* (the with block releases the lock), and __main__ goes on to stop().
Interrupt ==
  /\ pcMain = "serving"
  /\ pcMain' = "stopping"
  /\ reqState' = IF cur # 0 THEN [reqState EXCEPT ![cur] = "aborted"]
                 ELSE reqState
  /\ lock' = IF lock = "handler" THEN "free" ELSE lock
  /\ cur' = 0
  /\ pcH' = "idle"
  /\ got' = None
  /\ seen' = None
  /\ callLast' = None
  /\ callPubs' = {}
  /\ pubSinceRead' = FALSE
  /\ UNCHANGED << frame, running, pipeline, bus, file, pcProd, reqPath, resp,
                  published, lastPub, lastStep >>
  /\ UNCHANGED colVars

Next ==
  \/ Start
  \/ LoopTest
  \/ ProducerAcquire
  \/ GetStateReturn
  \/ Poll
  \/ UpdateFrame
  \/ StateChangeDone
  \/ \E c \in FileContents : WriteFile(c)
  \/ FileUnreadable
  \/ \E m \in BusMessages : PostMessage(m)
  \/ StopRunning
  \/ StopPipeline
  \/ \E r \in Requests, p \in Paths : Arrive(r, p)
  \/ \E r \in Requests : Accept(r)
  \/ HandlerAcquire
  \/ HandlerRead
  \/ HandlerRespond
  \/ Interrupt

Spec == Init /\ [][Next]_vars

\* ------------------------------------------------------------ receiver.py
\* Bodies an endpoint may send with status 200.
Bodies ==
  { DataPrefix \o <<"T","W","E","=">>,     \* the envelope around b64encode(b"Ma")
    DataPrefix,                             \* the envelope around an empty frame
    <<"o","o","p","s">>,                    \* no envelope, no comma
    <<"x",",","T","W","E","=">>,            \* no envelope, a comma, valid base64
    <<"x",",","T","W","E">> }               \* no envelope, a comma, bad padding

\* What requests.get may produce: a response, or an exception.
Outcomes ==
  { [kind |-> "response", status |-> 200, body |-> b] : b \in Bodies }
  \cup { [kind |-> "response", status |-> st, body |-> <<>>] : st \in {404, 500} }
  \cup { [kind |-> "exception", status |-> 0, body |-> <<>>] }

\* ThreadPoolExecutor(max_workers=len(pi_addresses))
max_workers == NumPis

\* A capture_image_from_pi that returns empty bytes for a non-200 status.
capture_image_from_pi_empty(o) ==
  IF o.kind = "exception" THEN None
  ELSE IF o.status = 200
  THEN LET parts == Split(o.body, ",")
       IN IF Len(parts) < 2 THEN None
          ELSE LET image_bytes == b64decode(parts[2])
               IN IF image_bytes = B64Error THEN None ELSE image_bytes
  ELSE <<>>

\* capture_image_from_pi: the image_bytes of the returned tuple.  An
\* exception of requests.get, the IndexError of split(",")[1] and the
\* binascii.Error of b64decode are caught and give None.
capture_image_from_pi(o) ==
  IF o.kind = "exception" THEN None
  ELSE IF o.status = 200
  THEN LET parts == Split(o.body, ",")
       IN IF Len(parts) < 2 THEN None
          ELSE LET image_bytes == b64decode(parts[2])
               IN IF image_bytes = B64Error THEN None ELSE image_bytes
  ELSE None

\* if image_bytes: neither None nor empty.
Truthy(image_bytes) == image_bytes # None /\ Len(image_bytes) > 0

\* A loop that stops after the first future it is given.
StillPendingNone(p, e) == {}

\* as_completed: the futures still to be yielded once e's has been.
StillPending(p, e) == p \ {e}

\* A loop that takes the futures in submission order, waiting on each.
YieldableInOrder(p) ==
  {e \in p : task[e] = "done" /\ \A x \in p : e <= x}

\* as_completed yields any pending future that has finished.
Yieldable(p) == {e \in p : task[e] = "done"}

\* The for loop over as_completed ends when no future is left.
LoopExhausted(p) == p = {}

\* executor.submit(capture_image_from_pi, pi), for each pi in turn.
Submit ==
  /\ pcCol = "submit"
  /\ nextSubmit <= NumPis
  /\ task' = [task EXCEPT ![nextSubmit] = "queued"]
  /\ nextSubmit' = nextSubmit + 1
  /\ UNCHANGED << pcCol, sent, response, result, pending, delivered, saved >>
  /\ UNCHANGED svcVars

\* as_completed(future_to_pi) is entered with every future pending.
EnterLoop ==
  /\ pcCol = "submit"
  /\ nextSubmit > NumPis
  /\ pcCol' = "collect"
  /\ pending' = Pis
  /\ UNCHANGED << nextSubmit, task, sent, response, result, delivered, saved >>
  /\ UNCHANGED svcVars

\* A worker thread takes e's work item and calls requests.get.
StartTask(e) ==
  /\ task[e] = "queued"
  /\ Cardinality({x \in Pis : task[x] = "running"}) < max_workers
  /\ task' = [task EXCEPT ![e] = "running"]
  /\ sent' = [sent EXCEPT ![e] = sent[e] + 1]
  /\ UNCHANGED << pcCol, nextSubmit, response, result, pending, delivered, saved >>
  /\ UNCHANGED svcVars

\* A worker that puts a failed request back in the queue.
after_request_retry(image_bytes) ==
  IF image_bytes = None THEN "queued" ELSE "done"

\* capture_image_from_pi returns after its one requests.get, whatever came
\* of it, and the future is finished.
after_request(image_bytes) == "done"

\* requests.get returns or raises, and capture_image_from_pi returns.
Settle(e, o) ==
  /\ task[e] = "running"
  /\ response' = [response EXCEPT ![e] = o]
  /\ result' = [result EXCEPT ![e] = capture_image_from_pi(o)]
  /\ task' = [task EXCEPT ![e] = after_request(capture_image_from_pi(o))]
  /\ UNCHANGED << pcCol, nextSubmit, sent, pending, delivered, saved >>
  /\ UNCHANGED svcVars

\* One iteration of the for loop: as_completed yields e's finished future,
\* and its image is saved if image_bytes is truthy.
Deliver(e) ==
  /\ pcCol = "collect"
  /\ e \in Yieldable(pending)
  /\ pending' = StillPending(pending, e)
  /\ delivered' = Append(delivered, <<e, result[e]>>)
  /\ saved' = IF Truthy(result[e]) THEN saved \cup {<<e, result[e]>>} ELSE saved
  /\ UNCHANGED << pcCol, nextSubmit, task, sent, response, result >>
  /\ UNCHANGED svcVars

\* The loop ends and the with block shuts the executor down.
Finish ==
  /\ pcCol = "collect"
  /\ LoopExhausted(pending)
  /\ \A e \in Pis : task[e] = "done"
  /\ pcCol' = "done"
  /\ UNCHANGED << nextSubmit, task, sent, response, result, pending, delivered,
                  saved >>
  /\ UNCHANGED svcVars

NextCollector ==
  \/ Submit
  \/ EnterLoop
  \/ \E e \in Pis : StartTask(e)
  \/ \E e \in Pis, o \in Outcomes : Settle(e, o)
  \/ \E e \in Pis : Deliver(e)
  \/ Finish

SpecCollector == Init /\ [][NextCollector]_vars

\* The collector's own steps are taken when they can be; an endpoint owes no
\* answer.
FairCollector ==
  /\ SpecCollector
  /\ WF_vars(Submit)
  /\ WF_vars(EnterLoop)
  /\ \A e \in Pis : WF_vars(StartTask(e))
  /\ \A e \in Pis : WF_vars(Deliver(e))
  /\ WF_vars(Finish)

\* ------------------------------------------------------------ properties
IsCaptureRead == pcH = "respond" /\ cur # 0 /\ reqPath[cur] = "/capture"

ReadFails == UpdateFrame /\ file = None

\* C1: whatever the interleaving of capture_loop with get_frame calls, a
\* get_frame returns None or a value that a completed update_frame assigned
\* whole, and the slot itself never holds anything else.
C1_NoTornRead ==
  /\ frame = None \/ frame \in published
  /\ IsCaptureRead => (got = None \/ got \in published)

\* C1 witness: a get_frame has returned a frame while two different frames
\* had been published.
C1_Witness == IsCaptureRead /\ got # None /\ Cardinality(published) = 2

\* C2: the loop never processes an endpoint twice, and when the round is
\* complete it has processed each endpoint exactly once and every endpoint's
\* request has settled.
C2_OneResultPerEndpoint ==
  /\ \A i, j \in 1..Len(delivered) :
       i # j => delivered[i][1] # delivered[j][1]
  /\ pcCol = "done" =>
       /\ Len(delivered) = NumPis
       /\ {delivered[i][1] : i \in 1..Len(delivered)} = Pis
       /\ \A e \in Pis : task[e] = "done"

\* C2 witness: a complete round in which one endpoint failed and another
\* gave an image.
C2_Witness ==
  /\ pcCol = "done"
  /\ \E e \in Pis : result[e] = None
  /\ \E e \in Pis : Truthy(result[e])

\* C3: whenever the producer holds the frame lock it is swapping the frame
\* slot, not waiting on the pipeline.
C3_LockHeldOnlyForSwap == lock = "producer" => pcProd # "get_state"

\* C4: a submitted request is never kept from starting, and a settled
\* endpoint's result is never kept from being delivered, by another
\* endpoint that has not settled.
C4_SlowEndpointIsolation ==
  \A e \in Pis :
    /\ task[e] = "queued" => ENABLED StartTask(e)
    /\ (pcCol = "collect" /\ e \in pending /\ task[e] = "done")
         => ENABLED Deliver(e)

\* C4 witness: an endpoint submitted later has been delivered while an
\* earlier one is still waiting for its response.
C4_Witness ==
  \E i \in 1..Len(delivered) :
    \E e \in Pis : e < delivered[i][1] /\ task[e] = "running"

\* C5: every request eventually settles, so the round eventually completes,
\* even when an endpoint never answers.
C5_RoundEventuallyCompletes == <>(pcCol = "done")

\* C6: a response to /capture is 200 with the envelope around the base64 of
\* the frame get_frame found, or 500 when it found none; any other path
\* gets 404.
C6_ResponseContract ==
  resp.status # 0 =>
    IF resp.path # "/capture" THEN resp.status = 404 /\ resp.body = <<>>
    ELSE IF resp.seen = None THEN resp.status = 500 /\ resp.body = <<>>
    ELSE /\ resp.status = 200
         /\ HasPrefix(resp.body)
         /\ LET payload == SubSeq(resp.body, Len(DataPrefix) + 1, Len(resp.body))
            IN /\ \A i \in 1..Len(payload) :
                    IsB64Char(payload[i]) \/ payload[i] = "="
               /\ Len(payload) = 4 * ((Len(resp.seen) + 2) \div 3)
               /\ b64decode(payload) = resp.seen

\* C6 witness: a 200 response that carries a frame which is not empty.
C6_Witness == resp.status = 200 /\ resp.seen # None /\ Len(resp.seen) > 0

\* C7 as claimed: neither a failed read nor a pipeline error, met while the
\* service is running, ends the loop.
C7_NoFailureEndsLoop ==
  [][(running /\ (ReadFails \/ (Poll /\ Head(bus) = "ERROR")))
       => (running' /\ pcProd' # "exited")]_vars

\* C7 as amended: a failed read of the frame file does not end the loop: the
\* step leaves running as it was and takes capture_loop back to its while
\* test.
C7_ReadFailureKeepsLoop ==
  [][ReadFails => (running' = running /\ pcProd' = "test")]_vars

\* C7 witness: after a failed read the loop has gone on to a new cycle.
C7_Witness == lastStep = "read_failed" /\ running /\ pcProd = "acquire"

\* C8: a get_frame returns the frame published last before the call began
\* or one published while the call ran; with no publish during the call it
\* returns exactly the one published last.
C8_Freshness ==
  IsCaptureRead =>
    /\ got \in {callLast} \cup callPubs
    /\ callPubs = {} => got = callLast

\* C8 witness: two frames were published, then a get_frame that no publish
\* overlapped returned the later one.
C8_Witness ==
  /\ IsCaptureRead
  /\ callPubs = {}
  /\ Cardinality(published) = 2
  /\ got = lastPub

\* C9: a 200 response whose body lacks the envelope prefix gives a failure
\* for its endpoint: no image bytes, nothing saved.
C9_MalformedBodyFails ==
  \A e \in Pis :
    (task[e] = "done" /\ response[e].status = 200 /\ ~HasPrefix(response[e].body))
      => (result[e] = None /\ \A x \in saved : x[1] # e)

\* C10: a cycle whose read fails leaves the frame slot as it was.
C10_FailedCycleKeepsFrame == [][ReadFails => frame' = frame]_vars

\* C10 witness: a read has failed after a frame was published, and the slot
\* still holds that frame.
C10_Witness == lastStep = "read_failed" /\ frame # None /\ frame = lastPub

\* C11: the cache starts not ready, is ready exactly from the first
\* successful publish on, and never goes back: the slot, once it holds a
\* frame, holds one for ever, and once a get_frame has given a frame (its
\* request was answered 200) a later get_frame gives a frame too.
C11_ReadinessMonotonic ==
  /\ frame = None
  /\ [](frame # None <=> published # {})
  /\ []((resp.status = 200 /\ IsCaptureRead) => got # None)
  /\ [][frame # None => frame' # None]_vars

\* C11 witness: a get_frame gave a frame, then a read failed and the loop was
\* stopped by an ERROR message, and a later get_frame still gives a frame.
C11_Witness ==
  /\ resp.status = 200
  /\ IsCaptureRead
  /\ got # None
  /\ ~running
  /\ lastStep = "error_stop"

\* C12: get_frame only reads.  Before any publish it gives None; it leaves
\* the slot as it was; and when no publish has completed since the
\* get_frame before it returned, it gives the same frame as that one did.
C12_GetFrameIsPureRead ==
  /\ [](IsCaptureRead /\ published = {} => got = None)
  /\ [][HandlerRead => frame' = frame]_vars
  /\ [][(HandlerRead /\ resp.path = "/capture" /\ resp.status # 0
           /\ ~pubSinceRead) => got' = resp.got]_vars

\* C12 witness: two get_frame calls in a row gave the same frame, and no
\* publish has completed since the second.
C12_Witness ==
  /\ IsCaptureRead
  /\ resp.path = "/capture"
  /\ resp.status = 200
  /\ got = resp.got
  /\ ~pubSinceRead

\* The way an endpoint's request failed, "none" when the code takes it for
\* a success: the request raised, the status was not 200, or the 200 body
\* has no comma or no decodable base64 after its first comma.
FailureKind(o) ==
  IF o.kind = "exception" THEN "unreachable"
  ELSE IF o.status # 200 THEN "bad-status"
  ELSE IF Len(Split(o.body, ",")) < 2 THEN "malformed-payload"
  ELSE IF b64decode(Split(o.body, ",")[2]) = B64Error THEN "malformed-payload"
  ELSE "none"

Failed(e) == task[e] = "done" /\ FailureKind(response[e]) # "none"

\* C13 as claimed: the results of two endpoints that failed in different
\* ways differ, each carrying its own failure reason.
C13_FailureReasonInResult ==
  \A e1, e2 \in Pis :
    (Failed(e1) /\ Failed(e2)
       /\ FailureKind(response[e1]) # FailureKind(response[e2]))
      => result[e1] # result[e2]

\* C13 as amended: every failed endpoint's result is the pair of its address
\* and None, whatever the way it failed; the loop is handed that pair and
\* saves nothing for it.
C13_FailureIsNone ==
  /\ \A e \in Pis : Failed(e) => result[e] = None
  /\ \A i \in 1..Len(delivered) :
       Failed(delivered[i][1]) =>
         /\ delivered[i] = <<delivered[i][1], None>>
         /\ \A x \in saved : x[1] # delivered[i][1]

\* C13 witness: two endpoints failed in different ways and both results
\* have been delivered.
C13_Witness ==
  \E i, j \in 1..Len(delivered) :
    /\ Failed(delivered[i][1]) /\ Failed(delivered[j][1])
    /\ FailureKind(response[delivered[i][1]]) = "unreachable"
    /\ FailureKind(response[delivered[j][1]]) = "bad-status"

\* C14: the producer never writes the frame slot while a reader is inside
\* get_frame's critical section, holding the lock.
C14_WriteUnderLock ==
  [][(UpdateFrame /\ file # None) => (lock # "handler" /\ pcH # "locked")]_vars

\* C15: a request that is waiting never waits for another request's
\* handling: the oldest waiting request can be taken up at once, whatever
\* do_GET is doing for another request.
C15_NoQueuingBehindRequests ==
  \A r \in Requests :
    (/\ pcMain = "serving"
     /\ reqState[r] = "queued"
     /\ \A q \in Requests : q < r => reqState[q] # "queued")
      => ENABLED Accept(r)

DoGetStep ==
  \/ \E r \in Requests : Accept(r)
  \/ HandlerAcquire
  \/ HandlerRead
  \/ HandlerRespond

C17_FrozenAfterStop == [][pcMain = "exited" => frame' = frame]_vars

ProducerStep ==
  LoopTest \/ ProducerAcquire \/ GetStateReturn \/ Poll \/ UpdateFrame

\* C18: after stop() the capture_loop thread ends, whichever step it was
\* in: once stop() has returned (the pipeline is NULL and its bus flushed,
\* so nothing more is posted), the thread has ended or can take its next
\* step.
C18_ProducerExitsAfterStop ==
  pcMain = "exited" => (pcProd = "exited" \/ ENABLED ProducerStep)

\* C19: in one round at most one HTTP request is ever issued to an
\* endpoint, and when the round is complete exactly one has been issued to
\* each, whatever came of it.
C19_OneRequestPerEndpoint ==
  /\ \A e \in Pis : sent[e] <= 1
  /\ \A e \in Pis : task[e] \in {"running", "done"} <=> sent[e] = 1
  /\ pcCol = "done" => \A e \in Pis : sent[e] = 1

\* C19 witness: a complete round in which every endpoint failed, each in
\* its own way, and each was asked once.
C19_Witness ==
  /\ pcCol = "done"
  /\ \A e \in Pis : Failed(e) /\ sent[e] = 1
  /\ \E e1, e2 \in Pis : FailureKind(response[e1]) # FailureKind(response[e2])

\* C20: for every frame the capture service can hold (the empty one
\* included), when an endpoint answers with the 200 response do_GET builds
\* for that frame, the collector decodes exactly that frame and, once the
\* loop has processed the endpoint, has handed those bytes to save_image.
C20_RoundTrip ==
  \A e \in Pis, f \in FileContents :
    (/\ task[e] = "done"
     /\ response[e].kind = "response"
     /\ response[e].status = do_GET("/capture", f).status
     /\ response[e].body = do_GET("/capture", f).body)
      => /\ result[e] = f
         /\ (\E i \in 1..Len(delivered) : delivered[i][1] = e)
              => <<e, f>> \in saved

====
